---- MODULE Spec2Model ----
(***************************************************************************)
(* django-locking: locking/models.py.                                      *)
(*                                                                         *)
(* One lockable row lives in the database (store).  Every process works    *)
(* on its own model instance (handle), obtained with objects.get(pk=..).   *)
(* The methods of LockableModelMethodsMixin read the lock fields of the    *)
(* instance they are called on; update() issues one UPDATE .. WHERE pk     *)
(* and then mirrors the written values into the instance.  Each method     *)
(* touches the database at most once, everything else it does is local to  *)
(* the calling process, so one action per method call keeps every          *)
(* interleaving of the database accesses of concurrent callers.            *)
(***************************************************************************)
EXTENDS Integers, FiniteSets, Sequences, TLC

VARIABLES store, handle, now, ticks, result

vars == <<store, handle, now, ticks, result>>

----------------------------------------------------------------------------
(* Bounds of the model *)

\* number of clock advances explored
MaxTicks == 2

(* Values *)

\* auth.User instances
Users == {"A", "B"}
\* Python None passed where a user is expected / NULL locked_by
NoUser == "None"
\* every value a caller may pass as `user`
Principals == Users \cup {NoUser}
\* NULL locked_at (null=True): not a datetime
NoTime == -1
\* settings.LOCKING['time_until_expiration'], in seconds
TimeUntilExpiration == 600
\* timedelta keeps days and seconds apart; .seconds is 0 .. 86399
SecondsPerDay == 86400
\* amounts of seconds by which the wall clock advances between calls
TickSteps == {300, 601, SecondsPerDay}
\* the processes, each holding one model instance of the row
Handles == {1, 2}

\* the row as created: lock fields NULL, hard_lock default False,
\* modified_at (auto_now) the time of creation
NewRow == [locked_at |-> NoTime, locked_by |-> NoUser, hard_lock |-> FALSE,
           modified_at |-> 0]

\* the lock fields of a model instance.  Its modified_at attribute is never
\* read: save() overwrites it (auto_now) before it writes the row.
Instance(row) == [locked_at |-> row.locked_at, locked_by |-> row.locked_by,
                  hard_lock |-> row.hard_lock]

\* the result of the last method call; op "none" before any call
NoResult == [op |-> "none", user |-> NoUser, outcome |-> "none", was |-> "None"]

----------------------------------------------------------------------------
(* Pure helpers *)

\* datetime.today()
today == now

\* timedelta.seconds of a non-negative difference of d whole seconds
seconds(d) == d % SecondsPerDay

is_locked(self) ==
    IF self.locked_at # NoTime
    THEN IF seconds(today - self.locked_at) < TimeUntilExpiration
         THEN TRUE
         ELSE FALSE
    ELSE FALSE

\* raised by datetime.today() - None
TypeError == [raises |-> "TypeError", value |-> 0]

\* the property returns a number of seconds, or raises when locked_at is
\* not a datetime
lock_seconds_remaining(self) ==
    IF self.locked_at = NoTime
    THEN TypeError
    ELSE [raises |-> "none",
          value |-> TimeUntilExpiration - seconds(today - self.locked_at)]

lock_type(self) ==
    IF is_locked(self)
    THEN IF self.hard_lock THEN "hard" ELSE "soft"
    ELSE "None"

\* lock_applies_to that lets a hard lock apply to its own holder too
lock_applies_to_HardToHolder(self, user) ==
    IF is_locked(self) /\ (self.locked_by # user \/ self.hard_lock)
    THEN TRUE ELSE FALSE

lock_applies_to(self, user) ==
    IF is_locked(self) /\ self.locked_by # user THEN TRUE ELSE FALSE

is_locked_by(self, user) == user = self.locked_by

\* update() that leaves the locked_by column out of the assignment
update_WithoutHolder(obj, la, lb, hl) ==
    [obj EXCEPT !.locked_at = la, !.hard_lock = hl]

\* the three columns update() is called with, assigned to a row or instance
update(obj, la, lb, hl) ==
    [obj EXCEPT !.locked_at = la, !.locked_by = lb, !.hard_lock = hl]

\* the record of a call: how it returned, and the lock type
\* of the stored row when it was made
Outcome(op, user, outcome) ==
    [op |-> op, user |-> user, outcome |-> outcome, was |-> lock_type(store)]

----------------------------------------------------------------------------
Init ==
    /\ store = NewRow
    /\ handle = [h \in Handles |-> Instance(NewRow)]
    /\ now = 0
    /\ ticks = 0
    /\ result = NoResult

\* the wall clock advances
Tick ==
    /\ ticks < MaxTicks
    /\ \E d \in TickSteps : now' = now + d
    /\ ticks' = ticks + 1
    /\ UNCHANGED <<store, handle, result>>

\* Model.objects.get(pk=..): a process (re)loads its instance from the row
Load(h) ==
    /\ handle[h] # Instance(store)
    /\ handle' = [handle EXCEPT ![h] = Instance(store)]
    /\ UNCHANGED <<store, now, ticks, result>>

\* lock_for whose test of the holder is inverted: it refuses the holder and
\* lets everybody else through
lock_for_InvertedCheck(h, user, hard_lock) ==
    IF user \notin Users
    THEN /\ result' = Outcome("lock_for", user, "ValueError")
         /\ UNCHANGED <<store, handle, now, ticks>>
    ELSE IF is_locked(handle[h]) /\ handle[h].locked_by = user
    THEN /\ result' = Outcome("lock_for", user, "ObjectLockedError")
         /\ UNCHANGED <<store, handle, now, ticks>>
    ELSE /\ store' = update(store, today, user, hard_lock)
         /\ handle' = [handle EXCEPT ![h] = update(handle[h], today, user, hard_lock)]
         /\ result' = Outcome("lock_for", user, "ok")
         /\ UNCHANGED <<now, ticks>>

\* lock_for whose update also sets modified_at, as a save() would
lock_for_TouchModified(h, user, hard_lock) ==
    IF user \notin Users
    THEN /\ result' = Outcome("lock_for", user, "ValueError")
         /\ UNCHANGED <<store, handle, now, ticks>>
    ELSE IF lock_applies_to(handle[h], user)
    THEN /\ result' = Outcome("lock_for", user, "ObjectLockedError")
         /\ UNCHANGED <<store, handle, now, ticks>>
    ELSE /\ store' = [update(store, today, user, hard_lock) EXCEPT !.modified_at = today]
         /\ handle' = [handle EXCEPT ![h] = update(handle[h], today, user, hard_lock)]
         /\ result' = Outcome("lock_for", user, "ok")
         /\ UNCHANGED <<now, ticks>>

\* lock_for that tests the lock before it validates the user
lock_for_LockCheckFirst(h, user, hard_lock) ==
    IF lock_applies_to(handle[h], user)
    THEN /\ result' = Outcome("lock_for", user, "ObjectLockedError")
         /\ UNCHANGED <<store, handle, now, ticks>>
    ELSE IF user \notin Users
    THEN /\ result' = Outcome("lock_for", user, "ValueError")
         /\ UNCHANGED <<store, handle, now, ticks>>
    ELSE /\ store' = update(store, today, user, hard_lock)
         /\ handle' = [handle EXCEPT ![h] = update(handle[h], today, user, hard_lock)]
         /\ result' = Outcome("lock_for", user, "ok")
         /\ UNCHANGED <<now, ticks>>

lock_for(h, user, hard_lock) ==
    IF user \notin Users
    THEN /\ result' = Outcome("lock_for", user, "ValueError")
         /\ UNCHANGED <<store, handle, now, ticks>>
    ELSE IF lock_applies_to(handle[h], user)
    THEN /\ result' = Outcome("lock_for", user, "ObjectLockedError")
         /\ UNCHANGED <<store, handle, now, ticks>>
    ELSE /\ store' = update(store, today, user, hard_lock)
         /\ handle' = [handle EXCEPT ![h] = update(handle[h], today, user, hard_lock)]
         /\ result' = Outcome("lock_for", user, "ok")
         /\ UNCHANGED <<now, ticks>>

\* unlock() that forgets hard_lock=False in its update() call
unlock_update_KeepHard(h) ==
    /\ store' = update(store, NoTime, NoUser, store.hard_lock)
    /\ handle' = [handle EXCEPT
                    ![h] = update(handle[h], NoTime, NoUser, handle[h].hard_lock)]

\* the update() call of unlock(): the row, then the instance
unlock_update(h) ==
    /\ store' = update(store, NoTime, NoUser, FALSE)
    /\ handle' = [handle EXCEPT ![h] = update(handle[h], NoTime, NoUser, FALSE)]

\* unlock() that passes through the hard-lock guard of save()
unlock_ThroughGuard(h) ==
    IF lock_type(handle[h]) = "hard"
    THEN /\ result' = Outcome("unlock", NoUser, "ObjectLockedError")
         /\ UNCHANGED <<store, handle, now, ticks>>
    ELSE /\ unlock_update(h)
         /\ result' = Outcome("unlock", NoUser, "ok")
         /\ UNCHANGED <<now, ticks>>

unlock(h) ==
    /\ unlock_update(h)
    /\ result' = Outcome("unlock", NoUser, "ok")
    /\ UNCHANGED <<now, ticks>>

\* unlock_for calls self.unlock() when the instance names `user` as holder
unlock_for(h, user) ==
    IF is_locked_by(handle[h], user)
    THEN /\ unlock_update(h)
         /\ result' = Outcome("unlock_for", user, "ok")
         /\ UNCHANGED <<now, ticks>>
    ELSE /\ result' = Outcome("unlock_for", user, "ObjectLockedError")
         /\ UNCHANGED <<store, handle, now, ticks>>

\* Model.save(): every column of the row is written from the instance,
\* modified_at (auto_now) is set to the current time on both
save(h) ==
    IF lock_type(handle[h]) = "hard"
    THEN /\ result' = Outcome("save", NoUser, "ObjectLockedError")
         /\ UNCHANGED <<store, handle, now, ticks>>
    ELSE /\ store' = [locked_at |-> handle[h].locked_at,
                    locked_by |-> handle[h].locked_by,
                    hard_lock |-> handle[h].hard_lock,
                    modified_at |-> today]
         /\ UNCHANGED handle
         /\ result' = Outcome("save", NoUser, "ok")
         /\ UNCHANGED <<now, ticks>>

Next ==
    \/ Tick
    \/ \E h \in Handles : Load(h)
    \/ \E h \in Handles, user \in Principals, hard_lock \in BOOLEAN :
          lock_for(h, user, hard_lock)
    \/ \E h \in Handles : unlock(h)
    \/ \E h \in Handles, user \in Principals : unlock_for(h, user)
    \/ \E h \in Handles : save(h)

Spec == Init /\ [][Next]_vars

----------------------------------------------------------------------------
(* Vocabulary of the properties: the lock status as the documentation      *)
(* defines it, from the true age of the lock.                              *)

Age(rec) == now - rec.locked_at

Expired(rec) == rec.locked_at # NoTime /\ Age(rec) >= TimeUntilExpiration

Locked(rec) == rec.locked_at # NoTime /\ Age(rec) < TimeUntilExpiration

Status(rec) ==
    IF ~Locked(rec) THEN "Unlocked"
    ELSE IF rec.hard_lock THEN "Hard" ELSE "Soft"

LockFields(rec) == <<rec.locked_at, rec.locked_by, rec.hard_lock>>

NoLock == <<NoTime, NoUser, FALSE>>

----------------------------------------------------------------------------
\* C1: two acquires for different principals racing on an unlocked row never
\* both succeed: when a lock_for has just succeeded on a row that was
\* unlocked, a lock_for for another principal made at the same instant
\* raises ObjectLockedError.
C1_RacingAcquiresExclusive ==
    [][\A h \in Handles, u \in Users, hl \in BOOLEAN :
        ( /\ result.op = "lock_for" /\ result.outcome = "ok"
          /\ result.was = "None"
          /\ result.user # u
          /\ store.locked_by = result.user /\ store.locked_at = now
          /\ lock_for(h, u, hl) )
        => result'.outcome = "ObjectLockedError"]_vars

\* C2: a lock_for for a valid user to whom the lock of the instance applies
\* raises ObjectLockedError and writes nothing: the row and the instance are
\* as before the call.
C2_DeniedAcquireWritesNothing ==
    [][(result'.op = "lock_for" /\ result'.user \in Users)
       => \A h \in Handles, hl \in BOOLEAN :
            ( /\ lock_applies_to(handle[h], result'.user)
              /\ lock_for(h, result'.user, hl) )
            => /\ result'.outcome = "ObjectLockedError"
               /\ store' = store
               /\ handle' = handle]_vars

\* C2 witness: a lock_for was denied while the row held another user's
\* unexpired lock, which is still there.
C2_Witness ==
    /\ result.op = "lock_for" /\ result.outcome = "ObjectLockedError"
    /\ Locked(store) /\ store.locked_by # result.user

\* C3: is_locked / lock_type agree with the documented status for every
\* lock age: locked iff locked_at is present and now - locked_at is less
\* than the expiration interval; hard or soft by hard_lock.
C3_StatusMatchesReference ==
    \A rec \in {store} \cup {handle[h] : h \in Handles} :
        /\ is_locked(rec) <=> Locked(rec)
        /\ lock_type(rec) = "None" <=> Status(rec) = "Unlocked"
        /\ lock_type(rec) = "hard" <=> Status(rec) = "Hard"
        /\ lock_type(rec) = "soft" <=> Status(rec) = "Soft"

\* C4: over an expired stored lock, lock_for for any valid user succeeds
\* and stores locked_by = user, locked_at = now.
C4_AcquireOverExpiredSucceeds ==
    [][\A h \in Handles, u \in Users, hl \in BOOLEAN :
        (Expired(store) /\ lock_for(h, u, hl))
        => /\ result'.outcome = "ok"
           /\ store'.locked_by = u
           /\ store'.locked_at = now]_vars

\* C5: while the status of the row is Hard every save is rejected with
\* ObjectLockedError and leaves the row unchanged; a save that follows a
\* successful unlock / unlock_for succeeds.
C5_HardLockWriteGuard ==
    [][\A h \in Handles :
        /\ (Status(store) = "Hard" /\ save(h))
           => (result'.outcome = "ObjectLockedError" /\ store' = store)
        /\ ( /\ result.op \in {"unlock", "unlock_for"} /\ result.outcome = "ok"
             /\ save(h) )
           => result'.outcome = "ok"]_vars

\* C6: while the row holds an unexpired soft lock a save succeeds, and the
\* lock applies to every other principal before and after the write: the
\* stored lock is still the holder's.
C6_SoftLockAdvisory ==
    [][\A h \in Handles :
        (Status(store) = "Soft" /\ save(h))
        => /\ result'.outcome = "ok"
           /\ LockFields(store') = LockFields(store)]_vars

\* C7: unlock() succeeds from every lock state, hard locks included, and
\* leaves locked_at and locked_by absent and hard_lock false in the row and
\* in the instance; on an unlocked row it leaves the lock fields as they are.
C7_UnlockAlwaysClears ==
    [][\A h \in Handles :
        (result'.op = "unlock" /\ now' = now /\ unlock(h))
        => /\ result'.outcome = "ok"
           /\ LockFields(store') = NoLock
           /\ LockFields(handle'[h]) = NoLock
           /\ (LockFields(store) = NoLock => LockFields(store') = LockFields(store))]_vars

\* C7 witness: unlock() returned on a row that held a hard lock, now cleared.
C7_Witness ==
    /\ result.op = "unlock" /\ result.outcome = "ok" /\ result.was = "hard"
    /\ LockFields(store) = NoLock

\* C8: unlock_for(P) succeeds, leaving the row unlocked, iff the stored
\* locked_by equals P; otherwise it raises ObjectLockedError and the row is
\* unchanged, expired lock or not.
C8_ReleaseForGatedOnStoredHolder ==
    [][\A h \in Handles, u \in Principals :
        unlock_for(h, u)
        => IF store.locked_by = u
           THEN result'.outcome = "ok" /\ LockFields(store') = NoLock
           ELSE result'.outcome = "ObjectLockedError" /\ store' = store]_vars

\* C9: in every reachable state the stored locked_at is present iff the
\* stored locked_by is present.
C9_LockFieldsNeverHalfSet ==
    store.locked_at # NoTime <=> store.locked_by # NoUser

\* C9 witness: a save has written the row while it holds a lock.
C9_Witness ==
    /\ result.op = "save" /\ result.outcome = "ok"
    /\ store.locked_at # NoTime /\ store.locked_by # NoUser

\* C10: hard_lock is set only while locked_at is present, and every unlock
\* or successful unlock_for leaves hard_lock false together with the
\* cleared locked_at and locked_by.
C10_HardLockOnlyWithLock ==
    [][/\ store.hard_lock => store.locked_at # NoTime
       /\ store'.hard_lock => store'.locked_at # NoTime
       /\ (result'.op \in {"unlock", "unlock_for"} /\ result'.outcome = "ok")
          => \A h \in Handles :
               (unlock(h) \/ unlock_for(h, result'.user))
               => /\ ~store'.hard_lock /\ store'.locked_at = NoTime
                  /\ ~handle'[h].hard_lock /\ handle'[h].locked_at = NoTime]_vars

\* C10 witness: unlock_for by the holder has cleared a hard lock.
C10_Witness ==
    /\ result.op = "unlock_for" /\ result.outcome = "ok" /\ result.was = "hard"
    /\ ~store.hard_lock /\ store.locked_at = NoTime

\* the row and the instances of the processes
Records == {store} \cup {handle[h] : h \in Handles}

C12_RenewalStrictlyLater ==
    [][\A h \in Handles, u \in Users, hl \in BOOLEAN :
        ( /\ result'.op = "lock_for" /\ result'.user = u
          /\ Locked(store) /\ store.locked_by = u /\ store.locked_at < now
          /\ lock_for(h, u, hl) )
        => /\ result'.outcome = "ok"
           /\ store'.locked_by = u
           /\ store'.locked_at > store.locked_at]_vars

\* C13: lock_seconds_remaining is the expiration interval minus the true
\* age of the lock, for every age: 300 at age 300, -1 at age 601, and one
\* less for every further second.
C13_SecondsRemainingIsIntervalMinusAge ==
    \A rec \in Records :
        rec.locked_at # NoTime
        => /\ lock_seconds_remaining(rec).raises = "none"
           /\ lock_seconds_remaining(rec).value = TimeUntilExpiration - Age(rec)

\* C14: lock_for with a user that is not an auth.User raises ValueError in
\* every lock state, another user's lock included, and writes nothing.
C14_InvalidPrincipalRejectedFirst ==
    [][(result'.op = "lock_for" /\ result'.user = NoUser)
       => \A h \in Handles, hl \in BOOLEAN :
            lock_for(h, NoUser, hl)
            => /\ result'.outcome = "ValueError"
               /\ store' = store
               /\ handle' = handle]_vars

\* C14 witness: lock_for(None) raised ValueError on a row that holds a
\* user's unexpired lock.
C14_Witness ==
    /\ result.op = "lock_for" /\ result.user = NoUser
    /\ result.outcome = "ValueError"
    /\ result.was # "None" /\ Locked(store)

\* C15: while the row holds an unexpired lock, no lock_for for a different
\* user succeeds and the stored locked_by stays the holder, also when the
\* call is made on an instance loaded before the holder acquired.
C15_UnexpiredLockNeverTakenOver ==
    [][\A h \in Handles, u \in Users, hl \in BOOLEAN :
        ( /\ result'.op = "lock_for" /\ result'.user = u
          /\ Locked(store) /\ store.locked_by # u
          /\ lock_for(h, u, hl) )
        => /\ result'.outcome = "ObjectLockedError"
           /\ store'.locked_by = store.locked_by]_vars

\* C16: a successful save leaves the stored locked_at, locked_by and
\* hard_lock exactly as they were.
C16_SaveLeavesLockFields ==
    [][\A h \in Handles :
        (result'.op = "save" /\ result'.outcome = "ok" /\ save(h))
        => LockFields(store') = LockFields(store)]_vars

C18_ExpiredStaysUnlocked ==
    [][(Expired(store) /\ now' > now /\ store' = store)
       => (lock_type(store) = "None")']_vars

\* C19: on a record without lock fields, in the row and in the instance,
\* unlock_for(p) raises ObjectLockedError and writes nothing for every p,
\* None included.
C19_ReleaseForOnUnlockedFails ==
    [][\A h \in Handles, p \in Principals :
        ( /\ result'.op = "unlock_for" /\ result'.user = p
          /\ LockFields(store) = NoLock /\ LockFields(handle[h]) = NoLock
          /\ unlock_for(h, p) )
        => /\ result'.outcome = "ObjectLockedError"
           /\ store' = store]_vars

\* C20: lock_seconds_remaining returns a number for every record, positive
\* iff is_locked is true and zero or negative iff the lock type is None,
\* also when locked_at is absent.
C20_SecondsRemainingSignMatchesStatus ==
    \A rec \in Records :
        /\ lock_seconds_remaining(rec).raises = "none"
        /\ lock_seconds_remaining(rec).value > 0 <=> is_locked(rec)
        /\ lock_seconds_remaining(rec).value <= 0 <=> lock_type(rec) = "None"

====
